---- MODULE Spec2Model ----
(***************************************************************************)
(* A model of fibber's BERT classifier (fibber/metrics/bert_classifier.py):*)
(* the supervised training loop load_or_train_bert_clf with its checkpoint *)
(* lookup, the evaluation routine run_evaluate, and the BertClassifier     *)
(* facade (prediction with the SEM / LMAG defenses, robust fine-tuning,    *)
(* robust-tuned snapshots).                                                *)
(*                                                                         *)
(* Tensors are abstracted: a batch is the number of its correctly          *)
(* classified rows and its loss; the parameters of a model are the number  *)
(* of optimizer updates applied to them since the pretrained weights.      *)
(* A rational r = a / b is kept as the pair <<a, b>>.                      *)
(***************************************************************************)
EXTENDS Integers, Sequences, FiniteSets, TLC

\* ------------------------------------------------------------------ bounds
MaxSteps == 3        \* bert_clf_steps is drawn from 0..MaxSteps
MaxTuneSteps == 2    \* successful robust_tune_step calls per facade
MaxLoads == 1        \* successful load_robust_tuned_model calls per facade
MaxBatchLen == 2     \* records in a robust_tune_step batch
MaxEvalCalls == 2    \* consecutive run_evaluate calls
MaxMeasureCalls == 2 \* consecutive measure_example calls
MaxRuns == 2         \* processes that call load_or_train_bert_clf in turn
MaxRecords == 2      \* records in a set given to paraphrase_dataset
MaxParaphrases == 2  \* the n of paraphrase_dataset is drawn from 0..MaxParaphrases

\* the "-%04dk" % (steps // 1000) of a checkpoint name
KiloSteps == 1000
\* self._lmag_repeat
LmagRepeat == 10
\* get_optimizer's warmup=1000
Warmup == 1000
\* strategy_base.py: save tmp output every 30 seconds
TmpSavePeriod == 30

Periods == {1, 2}
ValSteps == {0, 2}
BatchSizes == {2}
Optimizers == {"adam", "sgd", "adamw", "rmsprop"}
DatasetNames == {"mr"}
Tags == {"", "adv"}
TuneSaveSteps == {0}
SnapshotSteps == {0, 500}
Fields == {"text0", "text1"}
CandidateCounts == {1, 2}

None == [kind |-> "None"]

VARIABLES
    pc,             \* "start", "loop", "returned", "ready", "aborted", "eval"
    cfg,            \* the arguments of the running function (None outside it)
    disk,           \* the checkpoint directories on disk: path -> content
    model,          \* the model object: [id, mode, params]
    global_step,    \* the loop's step counter
    correct_train,  \* running count of correct predictions
    count_train,    \* running count of predictions
    opt,            \* the training optimizer
    sche,           \* the training scheduler
    summary,        \* the scalars written to the SummaryWriter, in order
    valPos,         \* batches drawn so far from dataloader_val_iter
    saves,          \* the global steps at which the loop saved the model
    drawn,          \* history: the training batches the loop has drawn
    loaded,         \* the checkpoint path the model was loaded from, or None
    self,           \* the facade's fields: flags, model family, dataset name
    fine_tune_opt,  \* self._fine_tune_opt
    fine_tune_sche, \* self._fine_tune_sche
    trace,          \* the statements the last call executed, in order
    result,         \* the last call: its name, its arguments, its outcome
    initialized,    \* a robust_tune_init call has succeeded on this facade
    snapshots       \* history: <<desc, step>> -> the parameters last saved
                    \* by save_robust_tuned_model(desc, step)

vars == <<pc, cfg, disk, model, global_step, correct_train, count_train, opt,
          sche, summary, valPos, saves, drawn, loaded, self, fine_tune_opt,
          fine_tune_sche, trace, result, initialized, snapshots>>

loopVars == <<global_step, correct_train, count_train, opt, sche, summary,
              valPos, saves, drawn>>
facadeVars == <<fine_tune_opt, fine_tune_sche, result, initialized, snapshots>>

\* ---------------------------------------------------------- checkpoint store

\* os.path.join on a path kept as the sequence of its components: joining an
\* empty component adds no directory level.
PathJoin(path, comp) == IF comp = "" THEN path ELSE Append(path, comp)

\* model_init + "-%04dk" % (steps // 1000)
CkptName_Exact(model_init, steps) == <<model_init, steps>>
CkptName(model_init, steps) == <<model_init, steps \div KiloSteps>>

\* The directory the training loop saves to and loads from.
ModelDir(enable_sem, dataset_name) ==
    IF enable_sem THEN <<"bert_clf_sem", dataset_name>>
                  ELSE <<"bert_clf", dataset_name>>

CkptPath(enable_sem, dataset_name, model_init, steps) ==
    Append(ModelDir(enable_sem, dataset_name), CkptName(model_init, steps))

Exists_Never(path) == FALSE
\* os.path.exists(ckpt_path)
Exists(path) == path \in DOMAIN disk

Save(d, path, content) ==
    [p \in (DOMAIN d) \cup {path} |-> IF p = path THEN content ELSE d[p]]

\* trainset["cased"] selects the pretrained model
ModelInit(cased) == IF cased THEN "bert-base-cased" ELSE "bert-base-uncased"

\* -------------------------------------------------------- optimizer factory

Supported_Any(optimizer_name) == TRUE
Supported(optimizer_name) == optimizer_name \in {"adam", "sgd", "adamw"}

\* get_optimizer: the pair (opt, sche), or the failed assertion.  An
\* optimizer holds the parameters of one model; grad is the set of steps
\* whose backward pass is accumulated in their gradients, applied the set
\* the last update was computed from.
GetOptimizer(optimizer_name, train_step, model_id) ==
    IF Supported(optimizer_name)
    THEN [raised |-> FALSE,
          opt  |-> [kind |-> "opt", params_of |-> model_id, steps |-> 0,
                    grad |-> {}, applied |-> {}],
          sche |-> [kind |-> "sche", steps |-> 0,
                    num_warmup_steps |-> Warmup,
                    num_training_steps |-> train_step]]
    ELSE [raised |-> TRUE, opt |-> None, sche |-> None]

\* transformers.get_linear_schedule_with_warmup: the factor the configured
\* learning rate is multiplied by after current_step scheduler steps, as the
\* rational <<numerator, denominator>>:
\*   current_step / max(1, warmup)                        below the warmup,
\*   max(0, (training - current_step) / max(1, training - warmup))  from it on.
LrLambda(current_step, num_warmup_steps, num_training_steps) ==
    IF current_step < num_warmup_steps
    THEN <<current_step,
           IF num_warmup_steps > 1 THEN num_warmup_steps ELSE 1>>
    ELSE IF num_training_steps - current_step <= 0
    THEN <<0, 1>>
    ELSE <<num_training_steps - current_step,
           IF num_training_steps - num_warmup_steps > 1
           THEN num_training_steps - num_warmup_steps ELSE 1>>

\* The learning rate factor of a scheduler.
Lr(s) == LrLambda(s.steps, s.num_warmup_steps, s.num_training_steps)

\* ------------------------------------------------------------- evaluation

\* The validation source: an endless cyclic stream of batches; batch i has
\* ValBatch(i).correct correctly classified rows and loss ValBatch(i).loss.
ValBatch(i) == [correct |-> i % 2, loss |-> (i \div 2) % 2]

RECURSIVE SumCorrect(_, _)
SumCorrect(pos, k) ==
    IF k = 0 THEN 0 ELSE ValBatch(pos).correct + SumCorrect(pos + 1, k - 1)

RECURSIVE LossList(_, _)
LossList(pos, k) ==
    IF k = 0 THEN <<>> ELSE <<ValBatch(pos).loss>> \o LossList(pos + 1, k - 1)

RECURSIVE SumSeq(_)
SumSeq(s) == IF s = <<>> THEN 0 ELSE Head(s) + SumSeq(Tail(s))

Scalar(tag, num, den, step) ==
    [tag |-> tag, num |-> num, den |-> den, step |-> step]

ExitMode_Eval(mode_on_entry) == "eval"
\* the mode run_evaluate leaves the model in when it returns (line 86)
ExitMode(mode_on_entry) == "train"

NextPos_Rewind(pos, eval_steps) == pos
\* the position of dataloader_iter after range(eval_steps) calls of next
NextPos(pos, eval_steps) == pos + eval_steps

\* run_evaluate(model, dataloader_iter, eval_steps, summary, global_step):
\* the model's mode, the iterator's position and the summary on exit.
\* With eval_steps = 0 the error rate 1 - correct / count divides by zero.
RunEvaluate(mode, pos, eval_steps, bs, log, step) ==
    LET correct == SumCorrect(pos, eval_steps)
        count   == eval_steps * bs
        losses  == LossList(pos, eval_steps)
    IN  IF count = 0
        THEN [raised |-> TRUE, mode |-> "eval",
              pos |-> NextPos(pos, eval_steps),
              summary |-> log,
              trace |-> <<"model.eval", "ZeroDivisionError">>]
        ELSE [raised |-> FALSE, mode |-> ExitMode(mode),
              pos |-> NextPos(pos, eval_steps),
              summary |-> log \o
                 <<Scalar("clf_val/error_rate", count - correct, count, step),
                   Scalar("clf_val/loss", SumSeq(losses), Len(losses), step)>>,
              trace |-> <<"model.eval", "evaluate", "model." \o ExitMode(mode)>>]

\* --------------------------------------------- the statements of a step

\* len(text0_list), len(text1_list) after the loop of lines 386-391
CountKey(batch, key) == Cardinality({i \in DOMAIN batch : key \in batch[i]})

AlreadyInitialized_Never(o, s) == FALSE
\* line 369
AlreadyInitialized(o, s) == s # None \/ o # None

\* line 378
NotInitialized(o, s) == s = None \/ o = None

Inconsistent_Never(n0, n1) == FALSE
\* lines 393-396: text1_list is neither empty nor as long as text0_list
Inconsistent(n0, n1) == n1 # 0 /\ n1 # n0

Raise(st, error) ==
    [st EXCEPT !.raised = error, !.trace = Append(@, error)]

\* One statement of a training step or of robust_tune_step on the state st =
\* [mode, params, id, opt, sche, raised, trace].
Do(stmt, st, batch) ==
    LET ran == [st EXCEPT !.trace = Append(@, stmt)]
    IN  CASE stmt = "check_initialized" ->
               IF NotInitialized(st.opt, st.sche)
               THEN Raise(st, "RuntimeError: fine tuning not initialized.")
               ELSE ran
          [] stmt = "model.train" -> [ran EXCEPT !.mode = "train"]
          [] stmt = "model.eval" -> [ran EXCEPT !.mode = "eval"]
          [] stmt = "collect" ->
               IF Inconsistent(CountKey(batch, "text0"),
                               CountKey(batch, "text1"))
               THEN Raise(st, "RuntimeError: data records are not consistent.")
               ELSE ran
          [] stmt = "opt.zero_grad" ->
               IF st.opt = None THEN Raise(st, "AttributeError")
               ELSE [ran EXCEPT !.opt = [@ EXCEPT !.grad = {}]]
          [] stmt = "loss.backward" ->
               IF st.opt = None THEN ran
               ELSE [ran EXCEPT
                       !.opt = [@ EXCEPT !.grad = @ \cup {st.opt.steps + 1}]]
          [] stmt = "opt.step" ->
               IF st.opt = None THEN Raise(st, "AttributeError")
               ELSE [ran EXCEPT
                       !.opt = [@ EXCEPT !.steps = @ + 1,
                                         !.applied = st.opt.grad],
                       !.params = IF st.opt.params_of = st.id THEN @ + 1
                                  ELSE @]
          [] stmt = "sche.step" ->
               IF st.sche = None THEN Raise(st, "AttributeError")
               ELSE [ran EXCEPT !.sche = [@ EXCEPT !.steps = @ + 1]]
          [] OTHER -> ran

\* The statements in order, up to the first that raises.
RECURSIVE Exec(_, _, _)
Exec(stmts, st, batch) ==
    IF stmts = <<>> \/ st.raised # "" THEN st
    ELSE CHOOSE end \in {Exec(Tail(stmts), next, batch) :
                            next \in {Do(Head(stmts), st, batch)}} : TRUE

\* ---------------------------------------------------------- training loop

SummaryDue_Never(step, period) == FALSE
\* line 195
SummaryDue(step, period) == step % period = 0
ValDue(step, period) == step % period = 0

SaveDue_PeriodOnly(step, period, steps) == step % period = 0
\* line 205
SaveDue(step, period, steps) == step % period = 0 \/ step = steps

AfterFlush_Keep(flush, running) == running
\* line 199: a flush resets the running counter
AfterFlush(flush, running) == IF flush THEN 0 ELSE running

LoopBreak_Never(step, steps) == FALSE
\* line 210
LoopBreak(step, steps) == step >= steps

\* The arguments of BertClassifier.__init__ that the model keeps.
Args ==
    [dataset_name : DatasetNames,
     cased : BOOLEAN,
     bert_clf_steps : 0..MaxSteps,
     bert_clf_bs : BatchSizes,
     bert_clf_optimizer : Optimizers,
     bert_clf_period_summary : Periods,
     bert_clf_period_val : Periods,
     bert_clf_period_save : Periods,
     bert_clf_val_steps : ValSteps,
     bert_clf_enable_sem : BOOLEAN,
     bert_clf_enable_lmag : BOOLEAN]

\* The checkpoint path load_or_train_bert_clf resolves from its arguments.
ArgsPath(a) ==
    CkptPath(a.bert_clf_enable_sem, a.dataset_name, ModelInit(a.cased),
             a.bert_clf_steps)

\* The fields BertClassifier.__init__ sets from its arguments.
Facade(a) ==
    [enable_sem |-> a.bert_clf_enable_sem,
     enable_lmag |-> a.bert_clf_enable_lmag,
     model_init |-> ModelInit(a.cased),
     dataset_name |-> a.dataset_name]

\* What a training batch of bs rows can turn out to be: all rows wrong with
\* loss 1, or all rows right with loss 0.
TrainBatches(bs) == {[correct |-> 0, loss |-> 1], [correct |-> bs, loss |-> 0]}

\* What model.save_pretrained writes: the parameters, and who wrote them.
Ckpt(params, writer, step, steps) ==
    [params |-> params, writer |-> writer, step |-> step, steps |-> steps]

\* A checkpoint left on disk by an earlier process.
PriorCkpt == Ckpt(1, "train", 1, 1)

BasePaths ==
    {CkptPath(s, d, ModelInit(c), 0) : s \in BOOLEAN, d \in DatasetNames,
                                        c \in BOOLEAN}

\* self._fine_tune_sche = None, self._fine_tune_opt = None (lines 299-300)
FineTuneAtInit == None

LoopIdle ==
    /\ global_step = 0
    /\ correct_train = 0
    /\ count_train = 0
    /\ opt = None
    /\ sche = None
    /\ summary = <<>>
    /\ valPos = 0
    /\ saves = <<>>
    /\ drawn = <<>>

NoFacade ==
    /\ self = None
    /\ fine_tune_opt = None
    /\ fine_tune_sche = None
    /\ result = None
    /\ initialized = FALSE
    /\ snapshots = <<>>

Init ==
    /\ pc = "start"
    /\ cfg = None
    /\ \E present \in {{}} \cup {{p} : p \in BasePaths} :
          disk = [p \in present |-> PriorCkpt]
    /\ model = None
    /\ loaded = None
    /\ trace = <<>>
    /\ LoopIdle
    /\ NoFacade

\* BertClassifier.__init__ up to the call of load_or_train_bert_clf, and
\* load_or_train_bert_clf up to its loop: the checkpoint is loaded when its
\* path exists, otherwise the pretrained model, the batch sources and the
\* optimizer are set up.
ConstructWith(args) ==
    /\ pc = "start"
    /\ \E a \in args :
        LET path == ArgsPath(a)
            made == GetOptimizer(a.bert_clf_optimizer, a.bert_clf_steps, 0)
        IN  /\ cfg' = a
            /\ self' = Facade(a)
            /\ IF Exists(path)
               THEN /\ model' = [id |-> 0, mode |-> "eval",
                                 params |-> disk[path].params]
                    /\ loaded' = [kind |-> "path", path |-> path]
                    /\ pc' = "returned"
                    /\ trace' = <<"from_pretrained", "model.eval">>
                    /\ UNCHANGED <<opt, sche>>
               ELSE /\ model' = [id |-> 0, mode |-> "train", params |-> 0]
                    /\ loaded' = None
                    /\ opt' = made.opt
                    /\ sche' = made.sche
                    /\ pc' = IF made.raised THEN "aborted" ELSE "loop"
                    /\ trace' = <<"from_pretrained", "model.train">> \o
                                (IF made.raised THEN <<"AssertionError">>
                                                ELSE <<"get_optimizer">>)
    /\ UNCHANGED <<disk, global_step, correct_train, count_train, summary,
                   valPos, saves, drawn, facadeVars>>

Construct == ConstructWith(Args)

StepBody_NoZeroGrad ==
    <<"forward", "accumulate", "loss.backward", "opt.step", "sche.step">>
\* The forward pass, the running counters and the update of one iteration
\* (lines 183-193), in program order.
StepBody ==
    <<"forward", "accumulate", "opt.zero_grad", "loss.backward", "opt.step",
      "sche.step">>

\* One iteration of the loop of load_or_train_bert_clf (lines 176-211) and,
\* when the iteration breaks, the return (lines 212-213).  The batch source
\* always yields a next batch.  The guard on global_step only caps the
\* counter: the loop as written never reaches it.
TrainStep ==
    /\ pc = "loop"
    /\ global_step <= MaxSteps
    /\ \E batch \in TrainBatches(cfg.bert_clf_bs),
          st \in {Exec(StepBody,
                       [mode |-> model.mode, params |-> model.params,
                        id |-> model.id, opt |-> opt, sche |-> sche,
                        raised |-> "", trace |-> <<>>], <<>>)} :
      LET step     == global_step + 1
          count1   == count_train + cfg.bert_clf_bs
          correct1 == correct_train + batch.correct
          flush    == SummaryDue(step, cfg.bert_clf_period_summary)
          log1     == IF flush
                      THEN summary \o
                           <<Scalar("clf_train/loss", batch.loss, 1, step),
                             Scalar("clf_train/error_rate",
                                    count1 - correct1, count1, step)>>
                      ELSE summary
      IN
      \E ev \in {RunEvaluate("train", valPos, cfg.bert_clf_val_steps,
                              cfg.bert_clf_bs, log1, step)} :
        LET params1  == st.params
            val      == ValDue(step, cfg.bert_clf_period_val)
            raised   == val /\ ev.raised
            save     == SaveDue(step, cfg.bert_clf_period_save,
                                cfg.bert_clf_steps)
            path     == CkptPath(cfg.bert_clf_enable_sem, cfg.dataset_name,
                                 ModelInit(cfg.cased), step)
            break    == LoopBreak(step, cfg.bert_clf_steps)
        IN  /\ global_step' = step
            /\ opt' = st.opt
            /\ sche' = st.sche
            /\ drawn' = Append(drawn, batch)
            /\ correct_train' = AfterFlush(flush, correct1)
            /\ count_train' = AfterFlush(flush, count1)
            /\ summary' = IF val THEN ev.summary ELSE log1
            /\ valPos' = IF val THEN ev.pos ELSE valPos
            /\ IF raised
               THEN /\ model' = [model EXCEPT !.params = params1,
                                              !.mode = ev.mode]
                    /\ pc' = "aborted"
                    /\ UNCHANGED <<disk, saves>>
               ELSE /\ model' = [model EXCEPT
                                   !.params = params1,
                                   !.mode = IF break THEN "eval"
                                            ELSE IF val THEN ev.mode ELSE @]
                    /\ disk' = IF save
                               THEN Save(disk, path,
                                         Ckpt(params1, "train", step,
                                              cfg.bert_clf_steps))
                               ELSE disk
                    /\ saves' = IF save THEN Append(saves, step) ELSE saves
                    /\ pc' = IF break THEN "returned" ELSE "loop"
            /\ trace' = st.trace
                        \o (IF flush THEN <<"summary">> ELSE <<>>)
                        \o (IF val THEN ev.trace ELSE <<>>)
                        \o (IF ~raised /\ save THEN <<"save_pretrained">>
                                               ELSE <<>>)
                        \o (IF ~raised /\ break THEN <<"model.eval">> ELSE <<>>)
    /\ UNCHANGED <<cfg, loaded, self, facadeVars>>

\* The end of BertClassifier.__init__ (lines 299-300): the locals of
\* load_or_train_bert_clf are gone, no fine-tuning pair is live.
InitDone ==
    /\ pc = "returned"
    /\ pc' = "ready"
    /\ cfg' = None
    /\ global_step' = 0
    /\ correct_train' = 0
    /\ count_train' = 0
    /\ opt' = None
    /\ sche' = None
    /\ summary' = <<>>
    /\ valPos' = 0
    /\ saves' = <<>>
    /\ drawn' = <<>>
    /\ fine_tune_opt' = FineTuneAtInit
    /\ fine_tune_sche' = FineTuneAtInit
    /\ trace' = <<>>
    /\ UNCHANGED <<disk, model, loaded, self, result, initialized, snapshots>>

Next ==
    \/ Construct
    \/ TrainStep
    \/ InitDone

Spec == Init /\ [][Next]_vars

\* The loop runs on the calling thread until it breaks or raises: a step
\* that can be taken is taken.
FairSpec == Spec /\ WF_vars(Construct) /\ WF_vars(TrainStep) /\ WF_vars(InitDone)

\* ------------------------------------------------- run_evaluate on its own

EvalArgs == [eval_steps : ValSteps \cup {1}, bs : BatchSizes]

\* A model in either mode, a validation iterator at any position, and the
\* arguments of a run_evaluate call.
InitEval ==
    /\ pc = "eval"
    /\ cfg \in EvalArgs
    /\ disk = <<>>
    /\ model \in [id : {0}, mode : {"train", "eval"}, params : {0}]
    /\ global_step \in 0..MaxSteps
    /\ valPos \in 0..3
    /\ correct_train = 0
    /\ count_train = 0
    /\ opt = None
    /\ sche = None
    /\ summary = <<>>
    /\ saves = <<>>
    /\ drawn = <<>>
    /\ loaded = None
    /\ trace = <<>>
    /\ NoFacade

\* One call of run_evaluate(model, dataloader_iter, eval_steps, summary,
\* global_step, device) (lines 52-86).
Evaluate ==
    /\ pc = "eval"
    /\ IF result = None THEN TRUE ELSE result.calls < MaxEvalCalls
    /\ LET ev == RunEvaluate(model.mode, valPos, cfg.eval_steps, cfg.bs,
                             summary, global_step)
       IN  /\ model' = [model EXCEPT !.mode = ev.mode]
           /\ valPos' = ev.pos
           /\ summary' = ev.summary
           /\ trace' = ev.trace
           /\ result' = [op |-> "run_evaluate",
                         entry_mode |-> model.mode,
                         first_pos |-> IF result = None THEN valPos
                                       ELSE result.first_pos,
                         first_mode |-> IF result = None THEN model.mode
                                        ELSE result.first_mode,
                         raised |-> ev.raised,
                         calls |-> IF result = None THEN 1
                                   ELSE result.calls + 1]
    /\ UNCHANGED <<pc, cfg, disk, global_step, correct_train, count_train,
                   opt, sche, saves, drawn, loaded, self, fine_tune_opt,
                   fine_tune_sche, initialized, snapshots>>

NextEval == Evaluate

SpecEval == InitEval /\ [][NextEval]_vars

\* ------------------------------------------- the schedule of get_optimizer

Budgets == {0, 500, 1000, 1500, 2500}
SchedArgs == [optimizer_name : {n \in Optimizers : Supported(n)},
              train_step : Budgets]

\* The pair get_optimizer returns for a step budget, warmup at its default.
InitSched ==
    /\ pc = "sched"
    /\ cfg \in SchedArgs
    /\ disk = <<>>
    /\ model = [id |-> 0, mode |-> "train", params |-> 0]
    /\ global_step = 0
    /\ correct_train = 0
    /\ count_train = 0
    /\ opt = GetOptimizer(cfg.optimizer_name, cfg.train_step, 0).opt
    /\ sche = GetOptimizer(cfg.optimizer_name, cfg.train_step, 0).sche
    /\ summary = <<>>
    /\ valPos = 0
    /\ saves = <<>>
    /\ drawn = <<>>
    /\ loaded = None
    /\ trace = <<>>
    /\ NoFacade

\* sche.step(), up to the end of the longer of the warmup and the budget.
ScheStep ==
    /\ pc = "sched"
    /\ sche.steps < sche.num_warmup_steps
         \/ sche.steps < sche.num_training_steps
    /\ sche' = [sche EXCEPT !.steps = @ + 1]
    /\ trace' = <<"sche.step">>
    /\ UNCHANGED <<pc, cfg, disk, model, global_step, correct_train,
                   count_train, opt, summary, valPos, saves, drawn, loaded,
                   self, facadeVars>>

NextSched == ScheStep

SpecSched == InitSched /\ [][NextSched]_vars

\* ------------------------------------------------------------ the facade

\* A data record is the set of its keys.  Records handed to the classifier
\* carry text0 and a label, and text1 when the dataset has two fields.
Single == {"text0", "label"}
Paired == {"text0", "text1", "label"}
TuneRecords == {Single, Paired}
TuneBatches == UNION {[1..n -> TuneRecords] : n \in 1..MaxBatchLen}

TuneStepBody_TrainFirst ==
    <<"model.train", "check_initialized", "collect", "tokenizer", "forward",
      "opt.zero_grad", "loss.backward", "opt.step", "sche.step", "model.eval">>
\* The statements of robust_tune_step, in program order (lines 378-412).
TuneStepBody ==
    <<"check_initialized", "model.train", "collect", "tokenizer", "forward",
      "opt.zero_grad", "loss.backward", "opt.step", "sche.step", "model.eval">>

\* os.path.join(get_root_dir(), "bert_clf", self._dataset_name, desc) and
\* the checkpoint name under it (lines 416-417, 424-425)
RobustPath(dataset_name, model_init, desc, step) ==
    Append(PathJoin(<<"bert_clf", dataset_name>>, desc),
           CkptName(model_init, step))

\* The facades the facade specification starts from: either defense on or
\* off, the uncased model family.
FacadeFields ==
    [enable_sem : BOOLEAN, enable_lmag : BOOLEAN,
     model_init : {ModelInit(FALSE)},
     dataset_name : DatasetNames]

\* A facade as BertClassifier.__init__ leaves it.
Ready ==
    /\ pc = "ready"
    /\ cfg = None
    /\ LoopIdle
    /\ self \in [enable_sem : BOOLEAN, enable_lmag : BOOLEAN,
                 model_init : {ModelInit(c) : c \in BOOLEAN},
                 dataset_name : DatasetNames]
    /\ model.id = 0
    /\ model.mode = "eval"
    /\ fine_tune_opt = FineTuneAtInit
    /\ fine_tune_sche = FineTuneAtInit
    /\ result = None
    /\ initialized = FALSE
    /\ snapshots = <<>>
    /\ trace = <<>>

\* The facade after construction, its base checkpoint on disk.
InitFacade ==
    /\ model = [id |-> 0, mode |-> "eval", params |-> 1]
    /\ self \in FacadeFields
    /\ Ready
    /\ loaded = None
    /\ disk = [p \in {CkptPath(self.enable_sem, self.dataset_name,
                               self.model_init, 1)} |-> PriorCkpt]

\* data_record = None, as a set of keys
NoRecord == {"None"}
PredictRecords == {NoRecord, Single, Paired}

LmagFieldOk_Always(record, field) == TRUE
\* lines 319-320: a record with a second field must be classified on it
LmagFieldOk(record, field) == ("text1" \in record) => field = "text1"

\* lmag_fix_sentences: the rewrites of n sentences, LmagRepeat for each
LmagFixCount(n) == n * LmagRepeat

\* lmag_fix_sentences: the rewrites themselves, the LmagRepeat rewrites of
\* a candidate next to each other, candidates in their order
LmagFixSentences(n) ==
    [i \in 1..LmagFixCount(n) |->
        [cand |-> ((i - 1) \div LmagRepeat) + 1,
         rep |-> ((i - 1) % LmagRepeat) + 1]]

Labels == {0, 1}
\* What the model answers: classifier c gives label 1 to the first c * i
\* rewrites of candidate i and label 0 to its others.
Classifiers == {1, 3}
\* logits[row].argmax()
ArgmaxLabel(c, row) == IF row.rep <= c * row.cand THEN 1 ELSE 0

View_Strided(rows, repeat) ==
    [g \in 1..(Len(rows) \div repeat) |->
        [j \in 1..repeat |-> rows[(j - 1) * (Len(rows) \div repeat) + g]]]
\* logits.view(len(paraphrase_list) // self._lmag_repeat, self._lmag_repeat,
\* -1): consecutive rows form a group (lines 344-345)
View(rows, repeat) ==
    [g \in 1..(Len(rows) \div repeat) |->
        [j \in 1..repeat |-> rows[(g - 1) * repeat + j]]]

\* torch.sum(F.one_hot(argmax, num_labels), dim=1): votes per label
VoteTally(group, c) ==
    [l \in Labels |->
        Cardinality({j \in DOMAIN group : ArgmaxLabel(c, group[j]) = l})]

\* The tallies predict_dist_batch reduces to log-probabilities, one for each
\* group, and the candidates whose rewrites each group holds.
LmagVotes(n, c) ==
    LET groups == View(LmagFixSentences(n), LmagRepeat)
    IN  [g \in DOMAIN groups |->
            [tally |-> VoteTally(groups[g], c),
             of |-> {groups[g][j].cand : j \in DOMAIN groups[g]}]]

\* predict_dist_batch(origin, paraphrase_list, data_record, paraphrase_field)
\* for n paraphrases (lines 315-351): the outcome and the number of
\* distributions returned.
Predict(fields, n, record, field) ==
    LET sem   == IF fields.enable_sem THEN <<"sem_fix_sentences">> ELSE <<>>
        len   == IF fields.enable_lmag THEN LmagFixCount(n) ELSE n
        rows  == IF fields.enable_lmag THEN len \div LmagRepeat ELSE len
        fail(error, done) ==
            [status |-> error, rows |-> 0, trace |-> sem \o done \o <<error>>]
        lmag  == IF fields.enable_lmag THEN <<"lmag_fix_sentences">> ELSE <<>>
    IN  IF fields.enable_lmag /\ record = NoRecord
        THEN fail("TypeError", <<>>)
        ELSE IF fields.enable_lmag /\ ~LmagFieldOk(record, field)
        THEN fail("AssertionError", <<>>)
        ELSE IF field # "text0" /\ field # "text1"
        THEN fail("AssertionError", lmag)
        ELSE IF field = "text1" /\ record = NoRecord
        THEN fail("TypeError", lmag)
        ELSE [status |-> "ok", rows |-> rows,
              trace |-> sem \o lmag \o <<"tokenizer", "forward", "log_softmax">>]

\* predict_dist_batch: reads the facade, changes nothing of it.
PredictDistBatch ==
    /\ pc = "ready"
    /\ \E n \in CandidateCounts, record \in PredictRecords, field \in Fields,
          c \in (IF self.enable_lmag THEN Classifiers ELSE {0}) :
      \E out \in {Predict(self, n, record, field)} :
        LET vote == self.enable_lmag /\ out.status = "ok"
        IN  /\ result' = [op |-> "predict_dist_batch", n |-> n,
                          record |-> record, field |-> field,
                          status |-> out.status, rows |-> out.rows,
                          clf |-> IF vote THEN c ELSE 0,
                          votes |-> IF vote THEN LmagVotes(n, c) ELSE <<>>]
            /\ trace' = out.trace
    /\ UNCHANGED <<pc, cfg, disk, model, loopVars, loaded, self,
                   fine_tune_opt, fine_tune_sche, initialized, snapshots>>

FineTunePair_OptOnly(made) == <<made.opt, None>>
\* self._fine_tune_opt, self._fine_tune_sche = get_optimizer(...) (line 374)
FineTunePair(made) == <<made.opt, made.sche>>

\* robust_tune_init(bert_clf_optimizer, bert_clf_lr, bert_clf_weight_decay,
\* bert_clf_steps) (lines 367-375)
RobustTuneInit ==
    /\ pc = "ready"
    /\ \E name \in Optimizers :
        LET made == GetOptimizer(name, MaxSteps, model.id)
            status ==
                IF AlreadyInitialized(fine_tune_opt, fine_tune_sche)
                THEN "RuntimeError: fine tuning has been initialized."
                ELSE IF made.raised THEN "AssertionError" ELSE "ok"
        IN  /\ result' = [op |-> "robust_tune_init", name |-> name,
                          status |-> status]
            /\ trace' = <<status>>
            /\ IF status = "ok"
               THEN /\ fine_tune_opt' = FineTunePair(made)[1]
                    /\ fine_tune_sche' = FineTunePair(made)[2]
                    /\ initialized' = TRUE
               ELSE UNCHANGED <<fine_tune_opt, fine_tune_sche, initialized>>
    /\ UNCHANGED <<pc, cfg, disk, model, loopVars, loaded, self, snapshots>>

\* robust_tune_step(data_record_list) (lines 377-413), the list from a set
RobustTuneStepOn(batches) ==
    /\ pc = "ready"
    /\ \E batch \in batches :
        \E st \in {Exec(TuneStepBody,
                        [mode |-> model.mode, params |-> model.params,
                         id |-> model.id, opt |-> fine_tune_opt,
                         sche |-> fine_tune_sche, raised |-> "",
                         trace |-> <<>>], batch)} :
            /\ IF st.opt = None THEN TRUE ELSE st.opt.steps <= MaxTuneSteps
            /\ model' = [model EXCEPT !.mode = st.mode, !.params = st.params]
            /\ fine_tune_opt' = st.opt
            /\ fine_tune_sche' = st.sche
            /\ trace' = st.trace
            /\ result' = [op |-> "robust_tune_step", batch |-> batch,
                          status |-> IF st.raised = "" THEN "ok"
                                     ELSE st.raised]
    /\ UNCHANGED <<pc, cfg, disk, loopVars, loaded, self, initialized,
                   snapshots>>

RobustTuneStep == RobustTuneStepOn(TuneBatches)

\* save_robust_tuned_model(desc, step) (lines 423-427), step from a set
SaveRobustTunedAt(steps) ==
    /\ pc = "ready"
    /\ \E desc \in Tags, step \in steps :
        LET path == RobustPath(self.dataset_name, self.model_init, desc, step)
        IN  /\ disk' = Save(disk, path,
                            Ckpt(model.params, "robust", step, step))
            /\ result' = [op |-> "save_robust_tuned_model", desc |-> desc,
                          step |-> step, status |-> "ok"]
            /\ trace' = <<"save_pretrained">>
            /\ snapshots' = Save(snapshots, <<desc, step>>, model.params)
    /\ UNCHANGED <<pc, cfg, model, loopVars, loaded, self, fine_tune_opt,
                   fine_tune_sche, initialized>>

SaveRobustTuned == SaveRobustTunedAt(TuneSaveSteps)

\* load_robust_tuned_model(desc, step) (lines 415-421): from_pretrained
\* raises when the directory is missing, before self._model is assigned.
LoadRobustTunedAt(steps) ==
    /\ pc = "ready"
    /\ \E desc \in Tags, step \in steps :
        LET path == RobustPath(self.dataset_name, self.model_init, desc, step)
            found == path \in DOMAIN disk
        IN  /\ found => model.id < MaxLoads
            /\ model' = IF found
                        THEN [id |-> model.id + 1, mode |-> "eval",
                              params |-> disk[path].params]
                        ELSE model
            /\ loaded' = IF found THEN [kind |-> "path", path |-> path]
                         ELSE loaded
            /\ result' = [op |-> "load_robust_tuned_model", desc |-> desc,
                          step |-> step,
                          status |-> IF found THEN "ok" ELSE "OSError"]
            /\ trace' = IF found THEN <<"from_pretrained", "model.eval">>
                        ELSE <<"OSError">>
    /\ UNCHANGED <<pc, cfg, disk, loopVars, self, fine_tune_opt,
                   fine_tune_sche, initialized, snapshots>>

LoadRobustTuned == LoadRobustTunedAt(TuneSaveSteps)

NextFacade ==
    \/ PredictDistBatch
    \/ RobustTuneInit
    \/ RobustTuneStep
    \/ SaveRobustTuned
    \/ LoadRobustTuned

SpecFacade == InitFacade /\ [][NextFacade]_vars

\* ------------------------------------- robust-tuned snapshots on their own

\* Fine-tuning on batches of one record, with saves and loads at two steps
\* of one thousand.
TuneSnapshot == RobustTuneStepOn({<<Single>>})
SaveSnapshot == SaveRobustTunedAt(SnapshotSteps)
LoadSnapshot == LoadRobustTunedAt(SnapshotSteps)

NextSnapshots ==
    \/ RobustTuneInit
    \/ TuneSnapshot
    \/ SaveSnapshot
    \/ LoadSnapshot

\* The LMAG defense plays no part in saving and loading.
InitSnapshots == InitFacade /\ ~self.enable_lmag

SpecSnapshots == InitSnapshots /\ [][NextSnapshots]_vars

\* ------------------------------------------ RefBleuMetric.measure_example

\* Python values: a string is the sequence of its words, a list the sequence
\* of its items.
Str(words) == [type |-> "str", words |-> words]
List(items) == [type |-> "list", items |-> items]
Num(v) == [type |-> "int", v |-> v]

\* The origin and paraphrase texts, the values a ref field can hold, and the
\* data records: None, records without a ref field, records with one.
Texts == {Str(<<"a", "b">>), Str(<<"a", "c">>), Str(<<>>)}
RefValues == {Str(<<"a", "b">>),
              List(<<Str(<<"a", "b">>), Str(<<"a", "c">>)>>),
              List(<<>>), Num(7), List(<<Num(7)>>)}
RefBases == {[text0 |-> Str(<<"a", "b">>)],
             [text0 |-> Str(<<"a", "b">>), label |-> Num(1)]}
RefRecords ==
    {None} \cup RefBases
    \cup {[k \in (DOMAIN b) \cup {"ref"} |-> IF k = "ref" THEN v ELSE b[k]] :
            b \in RefBases, v \in RefValues}

\* data_record[key]: None is not subscriptable, a dict raises on a key it
\* does not hold.
GetItem(data_record, key) ==
    IF data_record = None THEN [raised |-> "TypeError", value |-> None]
    ELSE IF key \notin DOMAIN data_record
    THEN [raised |-> "KeyError", value |-> None]
    ELSE [raised |-> "", value |-> data_record[key]]

\* nltk.word_tokenize: the words of a string; anything else is rejected
WordTokenize(text) ==
    IF text.type = "str" THEN [raised |-> "", value |-> text.words]
    ELSE [raised |-> "TypeError", value |-> <<>>]

CaughtByBaseException_KeyError(error) == error = "KeyError"
\* line 34: except BaseException
CaughtByBaseException(error) == TRUE

Zero == Num(0)
RefNotFound == "Ref not found in data, Ref Blue is set to 0."

\* measure_example(origin, paraphrase, data_record) (lines 29-39): what is
\* logged, what is returned or raised.  The score of nltk's sentence_bleu
\* is kept as the pair of its arguments.
MeasureExample(origin, paraphrase, data_record) ==
    LET got    == GetItem(data_record, "ref")
        ref    == IF got.raised # "" THEN <<>>
                  ELSE IF got.value.type = "list" THEN got.value.items
                  ELSE <<got.value>>
        tokens == [i \in DOMAIN ref |-> WordTokenize(ref[i])]
        failed == IF got.raised # "" THEN got.raised
                  ELSE IF \E i \in DOMAIN tokens : tokens[i].raised # ""
                  THEN "TypeError" ELSE ""
        hypo   == WordTokenize(paraphrase)
    IN  IF failed # ""
        THEN IF CaughtByBaseException(failed)
             THEN [raised |-> "", value |-> Zero, log |-> <<RefNotFound>>]
             ELSE [raised |-> failed, value |-> None, log |-> <<>>]
        ELSE IF hypo.raised # ""
        THEN [raised |-> hypo.raised, value |-> None, log |-> <<>>]
        ELSE [raised |-> "", log |-> <<>>,
              value |-> [type |-> "bleu",
                         ref |-> [i \in DOMAIN tokens |-> tokens[i].value],
                         hypo |-> hypo.value]]

\* A metric object; trace is what the logger has written.
InitMetric ==
    /\ pc = "metric"
    /\ cfg = None
    /\ disk = <<>>
    /\ model = None
    /\ loaded = None
    /\ trace = <<>>
    /\ LoopIdle
    /\ NoFacade

\* One call of measure_example.
Measure ==
    /\ pc = "metric"
    /\ IF result = None THEN TRUE ELSE result.calls < MaxMeasureCalls
    /\ \E origin \in Texts, paraphrase \in Texts, data_record \in RefRecords :
        \E out \in {MeasureExample(origin, paraphrase, data_record)} :
            /\ result' = [op |-> "measure_example", origin |-> origin,
                          paraphrase |-> paraphrase,
                          data_record |-> data_record,
                          raised |-> out.raised, value |-> out.value,
                          calls |-> IF result = None THEN 1
                                    ELSE result.calls + 1]
            /\ trace' = trace \o out.log
    /\ UNCHANGED <<pc, cfg, disk, model, loopVars, loaded, self,
                   fine_tune_opt, fine_tune_sche, initialized, snapshots>>

NextMetric == Measure

SpecMetric == InitMetric /\ [][NextMetric]_vars

\* --------------------------------------- load_or_train_bert_clf, repeated

\* The arguments of the repeated calls: one dataset and model family, the
\* defenses off, every step budget, save period and validation length.
RerunArgs ==
    {a \in Args : /\ ~a.cased
                  /\ ~a.bert_clf_enable_sem
                  /\ ~a.bert_clf_enable_lmag
                  /\ a.bert_clf_optimizer = "adam"
                  /\ a.bert_clf_period_summary = 1
                  /\ a.bert_clf_period_val = 2}

\* Nothing on disk before the first call.
InitRerun ==
    /\ pc = "start"
    /\ cfg = None
    /\ disk = <<>>
    /\ model = None
    /\ loaded = None
    /\ trace = <<>>
    /\ LoopIdle
    /\ NoFacade

ConstructAgain == ConstructWith(RerunArgs)

\* The process that called load_or_train_bert_clf is over, by the return of
\* the call or by the exception it raised; the disk stays, and result keeps
\* what the call was and did for the next process to be compared with.
Reinvoke ==
    /\ pc \in {"returned", "aborted"}
    /\ IF result = None THEN TRUE ELSE result.calls + 1 < MaxRuns
    /\ result' = [op |-> "load_or_train_bert_clf", cfg |-> cfg,
                  outcome |-> pc, loaded |-> loaded,
                  global_step |-> global_step, saves |-> saves,
                  calls |-> IF result = None THEN 1 ELSE result.calls + 1]
    /\ pc' = "start"
    /\ cfg' = None
    /\ model' = None
    /\ loaded' = None
    /\ self' = None
    /\ global_step' = 0
    /\ correct_train' = 0
    /\ count_train' = 0
    /\ opt' = None
    /\ sche' = None
    /\ summary' = <<>>
    /\ valPos' = 0
    /\ saves' = <<>>
    /\ drawn' = <<>>
    /\ trace' = <<>>
    /\ UNCHANGED <<disk, fine_tune_opt, fine_tune_sche, initialized, snapshots>>

NextRerun ==
    \/ ConstructAgain
    \/ TrainStep
    \/ Reinvoke

SpecRerun == InitRerun /\ [][NextRerun]_vars

\* ---------------------------------------- StrategyBase.paraphrase_dataset

\* The records of a set to paraphrase; one already carries paraphrases.
ParaRecords ==
    {[text0 |-> "a", label |-> 0],
     [text0 |-> "b", text1 |-> "c", label |-> 1],
     [text0 |-> "d", label |-> 1,
      text0_paraphrases |-> <<"old1", "old2", "old3">>]}

ParaSets ==
    [paraphrase_field : {"text0", "text1"},
     label_mapping : {<<"neg", "pos">>},
     data : UNION {[1..k -> ParaRecords] : k \in 0..MaxRecords}]

\* StrategyBase itself and a subclass that overwrites paraphrase_example
Strategies ==
    [class : {"StrategyBase", "subclass"},
     strategy_config : {[strategy_name |-> "Strategy"]}]

\* The key the paraphrases of a record are stored under (line 157)
ParaphrasesKey(field) == field \o "_paraphrases"

\* What paraphrase_example(data_record, field_name, n) can do: the base
\* class raises (line 136); a subclass returns a list of strings, which may
\* be longer than n.
Paraphrases(k) == [j \in 1..k |-> IF j = 1 THEN "p1" ELSE IF j = 2 THEN "p2"
                                   ELSE IF j = 3 THEN "p3" ELSE "p4"]
ParaphraseExample(strategy, n) ==
    IF strategy.class = "StrategyBase"
    THEN {[raised |-> "NotImplementedError", value |-> <<>>]}
    ELSE {[raised |-> "", value |-> Paraphrases(k)] : k \in 0..(n + 1)}

\* list[:n] for n >= 0
Slice(list, n) == [j \in 1..(IF n < Len(list) THEN n ELSE Len(list)) |-> list[j]]

DeepCopy_Alias(obj) == [value |-> obj, shared |-> TRUE]
\* copy.deepcopy: the value, in an object no one else holds
DeepCopy(obj) == [value |-> obj, shared |-> FALSE]

\* d[key] = value on a dict
SetItem(d, key, value) ==
    [k \in (DOMAIN d) \cup {key} |-> IF k = key THEN value ELSE d[k]]

\* json.dump(results, f): the file holds the value results has at the call
JsonDump(results) == [json |-> results]

\* line 163
TmpSaveDue(now, last_tmp_output_save_time) ==
    now - last_tmp_output_save_time > TmpSavePeriod

StartTimes == {100}
Elapsed == {0, TmpSavePeriod + 1}
TmpFiles == {<<"tmp", "out.json">>}

\* A strategy object; nothing written yet.
InitStrategy ==
    /\ pc = "strategy"
    /\ self \in Strategies
    /\ cfg = None
    /\ disk = <<>>
    /\ model = None
    /\ loaded = None
    /\ trace = <<>>
    /\ LoopIdle
    /\ fine_tune_opt = None
    /\ fine_tune_sche = None
    /\ result = None
    /\ initialized = FALSE
    /\ snapshots = <<>>

\* The call paraphrase_dataset(paraphrase_set, n, tmp_output_filename) up
\* to its loop (lines 149-153).  cfg holds the caller's objects, result the
\* locals of the call and the clock.
ParaphraseDatasetEnter ==
    /\ pc = "strategy"
    /\ \E paraphrase_set \in ParaSets, n \in 0..MaxParaphrases,
          tmp_output_filename \in TmpFiles, now \in StartTimes :
        /\ cfg' = [paraphrase_set |-> paraphrase_set, n |-> n,
                   tmp_output_filename |-> tmp_output_filename]
        /\ result' =
             [op |-> "paraphrase_dataset",
              results |->
                 [paraphrase_field |->
                      DeepCopy(paraphrase_set.paraphrase_field).value,
                  label_mapping |->
                      DeepCopy(paraphrase_set.label_mapping).value,
                  strategy_config |-> self.strategy_config,
                  data |-> <<>>],
              last_tmp_output_save_time |-> 0 - 1,
              now |-> now,
              status |-> "running",
              returned |-> None]
    /\ pc' = "paraphrase"
    /\ trace' = <<>>
    /\ UNCHANGED <<disk, model, loopVars, loaded, self, fine_tune_opt,
                   fine_tune_sche, initialized, snapshots>>

\* One iteration of the loop (lines 155-166) on the next record.
ParaphraseNext ==
    /\ pc = "paraphrase"
    /\ Len(result.results.data) < Len(cfg.paraphrase_set.data)
    /\ \E out \in ParaphraseExample(self, cfg.n), elapsed \in Elapsed :
        LET i       == Len(result.results.data) + 1
            field   == cfg.paraphrase_set.paraphrase_field
            copy    == DeepCopy(cfg.paraphrase_set.data[i])
            record  == SetItem(copy.value, ParaphrasesKey(field),
                               Slice(out.value, cfg.n))
            results == [result.results EXCEPT !.data = Append(@, record)]
            now     == result.now + elapsed
            due     == TmpSaveDue(now, result.last_tmp_output_save_time)
        IN  IF out.raised # ""
            THEN /\ pc' = "raised"
                 /\ result' = [result EXCEPT !.status = out.raised]
                 /\ trace' = Append(trace, out.raised)
                 /\ UNCHANGED <<cfg, disk>>
            ELSE /\ pc' = "paraphrase"
                 /\ cfg' = IF copy.shared
                           THEN [cfg EXCEPT !.paraphrase_set.data[i] = record]
                           ELSE cfg
                 /\ result' = [result EXCEPT
                                 !.results = results,
                                 !.now = now,
                                 !.last_tmp_output_save_time =
                                     IF due THEN now ELSE @]
                 /\ disk' = IF due
                            THEN Save(disk, cfg.tmp_output_filename,
                                      JsonDump(results))
                            ELSE disk
                 /\ trace' = trace \o <<"paraphrase_example">>
                                   \o (IF due THEN <<"json.dump">> ELSE <<>>)
    /\ UNCHANGED <<model, loopVars, loaded, self, fine_tune_opt,
                   fine_tune_sche, initialized, snapshots>>

\* The end of the loop: the last write and the return (lines 168-171).
ParaphraseDatasetReturn ==
    /\ pc = "paraphrase"
    /\ Len(result.results.data) = Len(cfg.paraphrase_set.data)
    /\ disk' = Save(disk, cfg.tmp_output_filename, JsonDump(result.results))
    /\ result' = [result EXCEPT !.status = "ok", !.returned = result.results]
    /\ pc' = "done"
    /\ trace' = Append(trace, "json.dump")
    /\ UNCHANGED <<cfg, model, loopVars, loaded, self, fine_tune_opt,
                   fine_tune_sche, initialized, snapshots>>

NextStrategy ==
    \/ ParaphraseDatasetEnter
    \/ ParaphraseNext
    \/ ParaphraseDatasetReturn

SpecStrategy == InitStrategy /\ [][NextStrategy]_vars

\* ================================================================= claims

\* C1: a run that enters the training loop never executes more than the
\* configured number of steps: global_step <= bert_clf_steps in every state
\* of the loop, for every step count including 0.
C1_StepsWithinBudget ==
    pc \in {"loop", "returned", "aborted"} => global_step <= cfg.bert_clf_steps

\* C2: after every run of the training loop that was not aborted, the model
\* was saved at global step exactly bert_clf_steps.
C2_CheckpointAtFinalStep ==
    (pc = "returned" /\ loaded = None)
        => \E i \in DOMAIN saves : saves[i] = cfg.bert_clf_steps

\* C3: the existence of the resolved checkpoint path decides the call: when
\* it exists the model is loaded from it in inference mode and returned, with
\* no training step, summary write, validation or checkpoint write; when it
\* does not, the training path is taken (the loop is entered unless
\* get_optimizer rejects the optimizer name).
C3_ExistenceGatesTraining ==
    /\ [][pc = "start" /\ pc' # "start" =>
            IF ArgsPath(cfg') \in DOMAIN disk
            THEN /\ pc' = "returned"
                 /\ loaded' = [kind |-> "path", path |-> ArgsPath(cfg')]
                 /\ model'.mode = "eval"
                 /\ model'.params = disk[ArgsPath(cfg')].params
                 /\ UNCHANGED <<disk, loopVars>>
            ELSE /\ loaded' = None
                 /\ pc' \in {"loop", "aborted"}
                 /\ pc' = "loop" <=> Supported(cfg'.bert_clf_optimizer)
                 /\ model'.mode = "train"]_vars
    /\ [](loaded # None =>
            /\ pc \in {"returned", "ready"}
            /\ global_step = 0
            /\ summary = <<>>
            /\ valPos = 0
            /\ saves = <<>>
            /\ opt = None)
    /\ [][pc = "loop" /\ global_step = 0 => global_step' = 1]_vars

C3_Witness ==
    /\ pc = "returned"
    /\ loaded # None
    /\ model.mode = "eval"

C4_ModeUnchanged ==
    (pc = "eval" /\ result # None /\ ~result.raised)
        => model.mode = result.first_mode

Count(t, x) == Cardinality({i \in DOMAIN t : t[i] = x})
Index(t, x) == CHOOSE i \in DOMAIN t : t[i] = x

\* The call that just returned: its name, and whether it raised.
Called(r, op) == r # None /\ r.op = op

\* C5: once robust_tune_init has succeeded on a facade, every later
\* robust_tune_init call on it, whatever was called in between, fails with
\* the already-initialized error and leaves the live pair as it was.
C5_SecondInitFails ==
    [][(initialized /\ Called(result', "robust_tune_init")) =>
          /\ result'.status = "RuntimeError: fine tuning has been initialized."
          /\ UNCHANGED <<fine_tune_opt, fine_tune_sche, model, disk>>]_vars

C5_Witness ==
    /\ initialized
    /\ Called(result, "robust_tune_init")
    /\ result.status = "RuntimeError: fine tuning has been initialized."
    /\ fine_tune_opt.steps >= 1
    /\ model.id >= 1
    /\ DOMAIN disk # {CkptPath(self.enable_sem, self.dataset_name,
                               self.model_init, 1)}

\* C6: robust_tune_step on a facade on which robust_tune_init has never
\* succeeded fails with the not-initialized error: no optimizer step, no
\* scheduler step, and the model (its mode included) is as before the call.
C6_StepBeforeInitFails ==
    [][(~initialized /\ Called(result', "robust_tune_step")) =>
          /\ result'.status = "RuntimeError: fine tuning not initialized."
          /\ Count(trace', "opt.step") = 0
          /\ Count(trace', "sche.step") = 0
          /\ Count(trace', "model.train") = 0
          /\ UNCHANGED <<model, fine_tune_opt, fine_tune_sche>>]_vars

C6_Witness ==
    /\ ~initialized
    /\ Called(result, "robust_tune_step")
    /\ result.status = "RuntimeError: fine tuning not initialized."
    /\ model.mode = "eval"

\* Some records of the batch carry text1 and others do not.
Mismatched(batch) ==
    \E i, j \in DOMAIN batch : "text1" \in batch[i] /\ "text1" \notin batch[j]

\* C7: a robust_tune_step call on a batch with mismatched field presence
\* fails (on an initialized facade: with the consistency error), and takes
\* no optimizer step and no scheduler step: the parameters are unchanged.
C7_MismatchedBatchFails ==
    [][(Called(result', "robust_tune_step") /\ Mismatched(result'.batch)) =>
          /\ result'.status # "ok"
          /\ initialized =>
               result'.status = "RuntimeError: data records are not consistent."
          /\ Count(trace', "opt.step") = 0
          /\ Count(trace', "sche.step") = 0
          /\ model'.params = model.params
          /\ model'.id = model.id
          /\ UNCHANGED <<fine_tune_opt, fine_tune_sche>>]_vars

C7_Witness ==
    /\ initialized
    /\ Called(result, "robust_tune_step")
    /\ Mismatched(result.batch)
    /\ result.status = "RuntimeError: data records are not consistent."
    /\ fine_tune_opt.steps >= 1

\* C8 as claimed: with the LMAG defense on, predict_dist_batch raises
\* whenever the field classified is text0, whatever the origin record.
C8_LmagRaisesOnText0 ==
    (Called(result, "predict_dist_batch") /\ self.enable_lmag
        /\ result.field = "text0") => result.status # "ok"

\* C8 as amended: with the LMAG defense on, predict_dist_batch raises
\* whenever the field classified is text0 and the origin record carries a
\* second text field.
C8_LmagRaisesOnText0OfPair ==
    (Called(result, "predict_dist_batch") /\ self.enable_lmag
        /\ result.field = "text0" /\ "text1" \in result.record)
    => (result.status = "AssertionError" /\ result.rows = 0)

C8_Witness ==
    /\ Called(result, "predict_dist_batch")
    /\ self.enable_lmag
    /\ result.field = "text0"
    /\ result.record = Paired
    /\ result.status = "AssertionError"

\* C9: every successful robust_tune_step runs its update in train mode,
\* takes exactly one optimizer step and then one scheduler step, and is back
\* in eval mode before it returns, so that once a step has succeeded the
\* model is in eval mode between any two facade calls.
C9_EvalModeAfterSuccessfulStep ==
    /\ (Called(result, "robust_tune_step") /\ result.status = "ok") =>
          /\ Count(trace, "opt.step") = 1
          /\ Count(trace, "sche.step") = 1
          /\ Index(trace, "model.train") < Index(trace, "opt.step")
          /\ Index(trace, "sche.step") = Index(trace, "opt.step") + 1
          /\ trace[Len(trace)] = "model.eval"
    /\ (fine_tune_opt # None /\ fine_tune_opt.steps >= 1) =>
          model.mode = "eval"

\* What does hold of a successful robust_tune_step, call by call: train
\* mode before the forward pass and the update, one optimizer step and then
\* one scheduler step, eval mode last and on return.
StepTrainThenEval ==
    /\ [](Called(result, "robust_tune_step") /\ result.status = "ok" =>
            /\ model.mode = "eval"
            /\ Count(trace, "model.train") = 1
            /\ Count(trace, "opt.step") = 1
            /\ Count(trace, "sche.step") = 1
            /\ Index(trace, "model.train") < Index(trace, "forward")
            /\ Index(trace, "forward") < Index(trace, "opt.step")
            /\ Index(trace, "sche.step") = Index(trace, "opt.step") + 1
            /\ trace[Len(trace)] = "model.eval")
    /\ [][(Called(result', "robust_tune_step") /\ result'.status = "ok") =>
            /\ fine_tune_opt'.steps = fine_tune_opt.steps + 1
            /\ fine_tune_sche'.steps = fine_tune_sche.steps + 1]_vars

\* Every facade the training specification constructs is one the facade
\* specification starts from, up to its parameters and the disk.
ConstructedIsReady == pc = "ready" => Ready

\* ---------------------------------------------------- claims C11 to C20

InLoopCall == pc \in {"loop", "returned", "aborted"} /\ loaded = None /\ cfg # None

\* run_evaluate was entered in the step the trace records.
ValFired(t) == Count(t, "evaluate") + Count(t, "ZeroDivisionError") >= 1
ValRaised(t) == Count(t, "ZeroDivisionError") >= 1

\* C11 as claimed: at global step s the summary is flushed iff
\* s mod period_summary = 0, validation runs iff s mod period_val = 0, and the
\* model is saved iff s mod period_save = 0 or s = bert_clf_steps; none of
\* the three depends on another.
C11_PeriodicActionsIndependent ==
    [][pc = "loop" =>
         LET s == global_step'
         IN  /\ (Count(trace', "summary") = 1)
                    <=> (s % cfg.bert_clf_period_summary = 0)
             /\ ValFired(trace') <=> (s % cfg.bert_clf_period_val = 0)
             /\ (Count(trace', "save_pretrained") = 1)
                    <=> (s % cfg.bert_clf_period_save = 0
                         \/ s = cfg.bert_clf_steps)]_vars

\* C11 as amended: the summary flush and the validation are each governed
\* by their own period alone; the model is saved iff s mod period_save = 0 or
\* s = bert_clf_steps, unless the validation of the same step raised (over
\* zero batches), which ends the step before its save.
C11_PeriodicActionsUnlessAborted ==
    [][pc = "loop" =>
         LET s == global_step'
         IN  /\ (Count(trace', "summary") = 1)
                    <=> (s % cfg.bert_clf_period_summary = 0)
             /\ ValFired(trace') <=> (s % cfg.bert_clf_period_val = 0)
             /\ ValRaised(trace') <=> (s % cfg.bert_clf_period_val = 0
                                       /\ cfg.bert_clf_val_steps = 0)
             /\ (Count(trace', "save_pretrained") = 1)
                    <=> (/\ s % cfg.bert_clf_period_save = 0
                            \/ s = cfg.bert_clf_steps
                         /\ ~ValRaised(trace'))
             /\ (Count(trace', "save_pretrained") = 1)
                    <=> (saves' = Append(saves, s))
             /\ Count(trace', "save_pretrained") <= 1]_vars

\* The last step of a budget of 3 with all periods 2: only the save fires,
\* and it fires because the step is the final one.
C11_Witness ==
    /\ pc = "returned"
    /\ loaded = None
    /\ global_step = 3
    /\ cfg.bert_clf_period_summary = 2
    /\ cfg.bert_clf_period_val = 2
    /\ cfg.bert_clf_period_save = 2
    /\ saves = <<2, 3>>
    /\ Count(trace, "summary") = 0
    /\ ~ValFired(trace)
    /\ Count(trace, "save_pretrained") = 1

\* The steps at which the training summary was flushed.
FlushSteps ==
    {summary[i].step : i \in {j \in DOMAIN summary :
                                 summary[j].tag = "clf_train/error_rate"}}
Max(S) == CHOOSE x \in S : \A y \in S : y <= x
\* The last flush before step b, 0 when there is none.
PrevFlush(b) == Max({0} \cup {a \in FlushSteps : a < b})
\* The loss and the correct rows of the batches of steps a+1 .. b.
WindowLoss(a, b) == SumSeq([j \in 1..(b - a) |-> drawn[a + j].loss])
WindowCorrect(a, b) == SumSeq([j \in 1..(b - a) |-> drawn[a + j].correct])
RatEq(n1, d1, n2, d2) == n1 * d2 = n2 * d1

\* The error rate written at each flush is that of exactly the steps since
\* the previous flush, and the running counters cover exactly the steps
\* since the last flush.
ErrorRateOverWindow ==
    /\ \A i \in DOMAIN summary :
         summary[i].tag = "clf_train/error_rate" =>
            LET b == summary[i].step
                a == PrevFlush(b)
                n == cfg.bert_clf_bs * (b - a)
            IN  RatEq(summary[i].num, summary[i].den,
                      n - WindowCorrect(a, b), n)
    /\ LET last == Max({0} \cup FlushSteps)
       IN  /\ count_train = cfg.bert_clf_bs * (global_step - last)
           /\ correct_train = WindowCorrect(last, global_step)

\* C12 as claimed: every flush writes the training loss and the error rate
\* accumulated over exactly the steps since the previous flush, and resets
\* the running counters.
C12_FlushWritesRunningLoss ==
    InLoopCall =>
        /\ ErrorRateOverWindow
        /\ \A i \in DOMAIN summary :
             summary[i].tag = "clf_train/loss" =>
                LET b == summary[i].step
                    a == PrevFlush(b)
                IN  RatEq(summary[i].num, summary[i].den,
                          WindowLoss(a, b), b - a)

\* C12 as amended: every flush writes the loss of the batch of the current
\* step alone, and the error rate accumulated over exactly the steps since
\* the previous flush, and resets the running counters.
C12_FlushWritesLastLoss ==
    InLoopCall =>
        /\ ErrorRateOverWindow
        /\ \A i \in DOMAIN summary :
             summary[i].tag = "clf_train/loss" =>
                /\ summary[i].num = drawn[summary[i].step].loss
                /\ summary[i].den = 1

\* A flush over a window of two steps whose losses differ.
C12_Witness ==
    /\ InLoopCall
    /\ cfg.bert_clf_period_summary = 2
    /\ global_step = 3
    /\ FlushSteps = {2}
    /\ drawn[1].loss # drawn[2].loss
    /\ count_train = cfg.bert_clf_bs

\* C13: a validation inside the loop leaves the training state alone: after
\* a step that validated, the step counter, the running counters, the
\* optimizer and scheduler counts and the parameters are what the step's own
\* update and flush made them, and the model is in train mode when the next
\* step starts.
C13_ValidationLeavesTrainingState ==
    [][(pc = "loop" /\ ValFired(trace')) =>
         LET flush == Count(trace', "summary") = 1
             batch == drawn'[Len(drawn')]
         IN  /\ global_step' = global_step + 1
             /\ opt'.steps = opt.steps + 1
             /\ sche'.steps = sche.steps + 1
             /\ opt'.steps = global_step'
             /\ sche'.steps = global_step'
             /\ model'.params = model.params + 1
             /\ count_train' = IF flush THEN 0
                               ELSE count_train + cfg.bert_clf_bs
             /\ correct_train' = IF flush THEN 0
                                 ELSE correct_train + batch.correct
             /\ pc' = "loop" => model'.mode = "train"
             /\ ~ValRaised(trace') =>
                  trace'[Index(trace', "evaluate") + 1] = "model.train"]_vars

\* The loop goes on after a validation at a step that did not flush.
C13_Witness ==
    /\ pc = "loop"
    /\ ValFired(trace)
    /\ ~ValRaised(trace)
    /\ count_train > 0
    /\ model.mode = "train"
    /\ valPos > 0

\* The report of the c-th call of a run of run_evaluate calls that started
\* at position p: error rate and mean loss of batches p + (c-1)k .. p + ck - 1.
EvalReport(p, c, k, bs, step) ==
    LET from == p + (c - 1) * k
        good == SumSeq([j \in 1..k |-> ValBatch(from + j - 1).correct])
        loss == SumSeq([j \in 1..k |-> ValBatch(from + j - 1).loss])
    IN  <<Scalar("clf_val/error_rate", k * bs - good, k * bs, step),
          Scalar("clf_val/loss", loss, k, step)>>

EvalReportsInOrder ==
    /\ valPos = result.first_pos + result.calls * cfg.eval_steps
    /\ Len(summary) = 2 * result.calls
    /\ \A c \in 1..result.calls :
         SubSeq(summary, 2 * c - 1, 2 * c) =
            EvalReport(result.first_pos, c, cfg.eval_steps, cfg.bs,
                       global_step)

\* C14 as claimed: every run_evaluate call with eval_steps = k draws exactly
\* k batches from the shared iterator, continuing where the previous call
\* stopped, and reports the error rate and the mean loss of those k batches.
C14_EvalDrawsAndReports ==
    (pc = "eval" /\ result # None) => EvalReportsInOrder

\* C14 as amended: for k >= 1 as claimed; with k = 0 the call draws no batch
\* and raises ZeroDivisionError without reporting.
C14_EvalDrawsAndReportsPositive ==
    (pc = "eval" /\ result # None) =>
        IF cfg.eval_steps >= 1
        THEN ~result.raised /\ EvalReportsInOrder
        ELSE /\ result.raised
             /\ valPos = result.first_pos
             /\ summary = <<>>

\* Two calls of two batches each, starting in the middle of the stream.
C14_Witness ==
    /\ pc = "eval"
    /\ result # None
    /\ result.calls = 2
    /\ cfg.eval_steps = 2
    /\ result.first_pos = 1
    /\ valPos = 5
    /\ Len(summary) = 4

\* C15 as claimed: every step runs forward, counters, one optimizer step,
\* then one scheduler step, then zeroes the gradients; after s steps both
\* have been stepped s times, and the update of a step uses the gradient of
\* that step alone.
C15_UpdateThenZeroGrad ==
    /\ (InLoopCall /\ global_step >= 1) =>
          /\ Count(trace, "opt.step") = 1
          /\ Count(trace, "sche.step") = 1
          /\ Index(trace, "forward") < Index(trace, "accumulate")
          /\ Index(trace, "accumulate") < Index(trace, "opt.step")
          /\ Index(trace, "sche.step") = Index(trace, "opt.step") + 1
          /\ Count(trace, "opt.zero_grad") = 1
          /\ Index(trace, "opt.zero_grad") > Index(trace, "sche.step")
          /\ opt.steps = global_step
          /\ sche.steps = global_step
          /\ opt.applied = {global_step}

\* C15 as amended: every step runs forward, counters, zeroes the gradients,
\* backward, one optimizer step, then one scheduler step; the gradients of
\* the step stay in place until the next step zeroes them; after s steps
\* both have been stepped s times, and the update of a step uses the
\* gradient of that step alone.
C15_ZeroGradThenUpdate ==
    /\ (InLoopCall /\ global_step >= 1) =>
          /\ Count(trace, "opt.step") = 1
          /\ Count(trace, "sche.step") = 1
          /\ Count(trace, "opt.zero_grad") = 1
          /\ Count(trace, "loss.backward") = 1
          /\ Index(trace, "forward") < Index(trace, "accumulate")
          /\ Index(trace, "accumulate") < Index(trace, "opt.zero_grad")
          /\ Index(trace, "loss.backward") = Index(trace, "opt.zero_grad") + 1
          /\ Index(trace, "opt.step") = Index(trace, "loss.backward") + 1
          /\ Index(trace, "sche.step") = Index(trace, "opt.step") + 1
          /\ opt.steps = global_step
          /\ sche.steps = global_step
          /\ model.params = global_step
          /\ opt.applied = {global_step}
          /\ opt.grad = {global_step}

C15_Witness ==
    /\ InLoopCall
    /\ global_step = 3
    /\ opt.steps = 3
    /\ opt.applied = {3}

\* C16: get_optimizer fails (the assertion "unkown optimizer") for every
\* name outside adam, sgd, adamw, and then no optimizer and no scheduler
\* exist; for every name inside the set it returns the pair.
C16_UnsupportedOptimizerFails ==
    [][(pc = "start" /\ pc' # "start" /\ loaded' = None) =>
         IF cfg'.bert_clf_optimizer \in {"adam", "sgd", "adamw"}
         THEN /\ pc' = "loop"
              /\ opt' # None /\ opt'.kind = "opt" /\ opt'.steps = 0
              /\ sche' # None /\ sche'.kind = "sche" /\ sche'.steps = 0
              /\ Count(trace', "AssertionError") = 0
         ELSE /\ pc' = "aborted"
              /\ opt' = None
              /\ sche' = None
              /\ trace'[Len(trace')] = "AssertionError"]_vars

C16_Witness ==
    /\ pc = "aborted"
    /\ cfg.bert_clf_optimizer = "rmsprop"
    /\ opt = None
    /\ sche = None
    /\ global_step = 0

\* A rational <<a, b>> with b > 0 is at most, or below, another.
RatLeq(x, y) == x[1] * y[2] <= y[1] * x[2]
RatLess(x, y) == x[1] * y[2] < y[1] * x[2]

\* The learning rate is 0 before the first step, the configured rate at the
\* warmup boundary and 0 at the last step of the budget; it grows through
\* the warmup and falls from the boundary to the budget.
ScheduleShape ==
    /\ [](pc = "sched" =>
            /\ sche.steps = 0 => Lr(sche)[1] = 0
            /\ sche.steps = Warmup => Lr(sche)[1] = Lr(sche)[2]
            /\ sche.steps = cfg.train_step => Lr(sche)[1] = 0)
    /\ [][(pc = "sched" /\ sche'.steps = sche.steps + 1) =>
            /\ sche'.steps <= Warmup => RatLess(Lr(sche), Lr(sche'))
            /\ (sche.steps >= Warmup /\ sche'.steps <= cfg.train_step)
                  => RatLess(Lr(sche'), Lr(sche))]_vars

\* C17: for every supported optimizer and every step budget, warmup at its
\* default of 1000: the learning rate is 0 at step 0, grows through the
\* warmup, is the configured rate at the warmup boundary, and falls to 0 at
\* the last step of the budget.
C17_WarmupThenDecay == ScheduleShape

\* The same for the budgets above the warmup only, where it holds.  For a
\* budget of at most the warmup the rate is step / 1000 up to step 999 and
\* 0 from step 1000 on.
ScheduleShapeBeyondWarmup ==
    /\ [](pc = "sched" =>
            /\ sche.steps = 0 => Lr(sche)[1] = 0
            /\ cfg.train_step > Warmup =>
                 /\ sche.steps = Warmup => Lr(sche)[1] = Lr(sche)[2]
                 /\ sche.steps = cfg.train_step => Lr(sche)[1] = 0
            /\ cfg.train_step <= Warmup =>
                 /\ sche.steps < Warmup => Lr(sche) = <<sche.steps, Warmup>>
                 /\ sche.steps >= Warmup => Lr(sche)[1] = 0)
    /\ [][(pc = "sched" /\ sche'.steps = sche.steps + 1
              /\ cfg.train_step > Warmup) =>
            /\ sche'.steps <= Warmup => RatLess(Lr(sche), Lr(sche'))
            /\ (sche.steps >= Warmup /\ sche'.steps <= cfg.train_step)
                  => RatLess(Lr(sche'), Lr(sche))]_vars

\* The base checkpoint of the facade: the path its training loop resolved.
BaseCkptPath ==
    CkptPath(self.enable_sem, self.dataset_name, self.model_init, 1)

\* C18: whatever the tag, the step and the defense mode, the path of a
\* robust-tuned snapshot is not the path of the base checkpoint, and saving
\* a snapshot leaves the base checkpoint as the training loop wrote it.
C18_SnapshotApartFromBase ==
    pc = "ready" =>
        /\ Called(result, "save_robust_tuned_model") =>
              RobustPath(self.dataset_name, self.model_init, result.desc,
                         result.step) # BaseCkptPath
        /\ BaseCkptPath \in DOMAIN disk
        /\ disk[BaseCkptPath] = PriorCkpt

\* What holds of it: a snapshot saved under a non-empty tag, or by a facade
\* with the SEM defense, leaves the base checkpoint alone.
SnapshotApartUnlessEmptyTag ==
    [][(Called(result', "save_robust_tuned_model")
          /\ (result'.desc # "" \/ self.enable_sem)) =>
         /\ BaseCkptPath \in DOMAIN disk
         /\ disk'[BaseCkptPath] = disk[BaseCkptPath]]_vars

\* C19: load_robust_tuned_model(tag, step) after a
\* save_robust_tuned_model(tag, step) restores the model of that save, in
\* eval mode, whatever was saved under other (tag, step) keys in between.
C19_LoadRestoresKeyedSnapshot ==
    (/\ pc = "ready"
     /\ Called(result, "load_robust_tuned_model")
     /\ result.status = "ok"
     /\ <<result.desc, result.step>> \in DOMAIN snapshots)
    => /\ model.params = snapshots[<<result.desc, result.step>>]
       /\ model.mode = "eval"

\* The steps under which a snapshot with the tag was saved in the thousand
\* of the step.
SameThousand(desc, step) ==
    {key[2] : key \in {k \in DOMAIN snapshots :
                          /\ k[1] = desc
                          /\ k[2] \div 1000 = step \div 1000}}

\* C19 as amended: snapshots are keyed by the tag and the thousands of the
\* step: load_robust_tuned_model(tag, step) succeeds once a snapshot was
\* saved under the tag at any step of the same thousand, and restores, in
\* eval mode, the one saved last among them.
C19_LoadRestoresLatestOfThousand ==
    (pc = "ready" /\ Called(result, "load_robust_tuned_model")) =>
        /\ SameThousand(result.desc, result.step) # {}
              => result.status = "ok"
        /\ (result.status = "ok" /\ disk[loaded.path].writer = "robust") =>
              /\ disk[loaded.path].step
                    \in SameThousand(result.desc, result.step)
              /\ model.params =
                    snapshots[<<result.desc, disk[loaded.path].step>>]
              /\ model.mode = "eval"

\* A load at step 0 that restored the snapshot saved at step 500, which is
\* not the one saved at step 0.
C19_Witness ==
    /\ pc = "ready"
    /\ Called(result, "load_robust_tuned_model")
    /\ result.status = "ok"
    /\ result.desc = "adv"
    /\ result.step = 0
    /\ disk[loaded.path].step = 500
    /\ <<"adv", 0>> \in DOMAIN snapshots
    /\ model.params # snapshots[<<"adv", 0>>]

\* C20: with the LMAG defense on, predict_dist_batch on k candidates returns
\* k distributions, and the tally behind distribution i counts the argmax
\* labels of the LmagRepeat rewrites of candidate i and of no other: its
\* entries sum to LmagRepeat.
C20_VotePerCandidate ==
    (/\ pc = "ready"
     /\ Called(result, "predict_dist_batch")
     /\ self.enable_lmag
     /\ result.status = "ok")
    => /\ result.rows = result.n
       /\ Len(result.votes) = result.n
       /\ \A i \in 1..result.n :
            /\ result.votes[i].of = {i}
            /\ result.votes[i].tally[0] + result.votes[i].tally[1] = LmagRepeat
            /\ result.votes[i].tally[1] =
                  Cardinality({j \in 1..LmagRepeat : j <= result.clf * i})

\* Two candidates whose rewrites are voted differently.
C20_Witness ==
    /\ pc = "ready"
    /\ Called(result, "predict_dist_batch")
    /\ self.enable_lmag
    /\ result.status = "ok"
    /\ result.n = 2
    /\ result.votes[1].tally[1] = 3
    /\ result.votes[2].tally[1] = 6

\* ---------------------------------------------------- claims C21 to C28

\* The checkpoint directories the running loop has written so far.
WrittenDirs ==
    {CkptPath(cfg.bert_clf_enable_sem, cfg.dataset_name, ModelInit(cfg.cased),
              saves[i]) : i \in DOMAIN saves}

NoRef(data_record) ==
    IF data_record = None THEN TRUE ELSE "ref" \notin DOMAIN data_record

C23_SecondCallSkipsTraining ==
    [][(/\ pc = "start"
        /\ pc' # "start"
        /\ Called(result, "load_or_train_bert_clf")
        /\ result.outcome = "returned"
        /\ result.loaded = None
        /\ cfg' = result.cfg)
       => /\ ArgsPath(cfg') \in DOMAIN disk
          /\ disk[ArgsPath(cfg')].step = cfg'.bert_clf_steps
          /\ pc' = "returned"
          /\ loaded' = [kind |-> "path", path |-> ArgsPath(cfg')]
          /\ global_step' = 0]_vars

\* What does hold: the same, for every step budget of at least one.
SecondCallSkipsTrainingFromOne ==
    [][(/\ pc = "start"
        /\ pc' # "start"
        /\ Called(result, "load_or_train_bert_clf")
        /\ result.outcome = "returned"
        /\ result.loaded = None
        /\ result.cfg.bert_clf_steps >= 1
        /\ cfg' = result.cfg)
       => /\ ArgsPath(cfg') \in DOMAIN disk
          /\ disk[ArgsPath(cfg')].step = cfg'.bert_clf_steps
          /\ pc' = "returned"
          /\ loaded' = [kind |-> "path", path |-> ArgsPath(cfg')]
          /\ global_step' = 0]_vars

\* C25: whenever the call skips training because the resolved path exists,
\* the checkpoint there was written by the save at global step N of a run
\* whose budget was N, N the budget of the call.
C25_SkipOnlyAfterFinalSave ==
    (pc = "returned" /\ loaded # None)
        => /\ disk[loaded.path].writer = "train"
           /\ disk[loaded.path].step = cfg.bert_clf_steps
           /\ disk[loaded.path].steps = cfg.bert_clf_steps

\* The records of the result are the records given, in their order, each
\* with its paraphrases under the key of the paraphrased field.
SameRecordsInOrder(given, returned, key) ==
    /\ Len(returned) = Len(given)
    /\ \A i \in DOMAIN given :
          /\ DOMAIN returned[i] = (DOMAIN given[i]) \cup {key}
          /\ \A k \in (DOMAIN given[i]) \ {key} : returned[i][k] = given[i][k]

\* C24: paraphrase_dataset returns a result whose data list has the length
\* and the record order of the set given, each record with at most n
\* paraphrases under <paraphrase_field>_paraphrases; no step of the call
\* changes the caller's set; and the temporary output file holds, after the
\* last write, the result returned.
C24_ResultFramesInput ==
    /\ [](pc = "done" =>
            LET key == ParaphrasesKey(cfg.paraphrase_set.paraphrase_field)
                res == result.returned
            IN  /\ SameRecordsInOrder(cfg.paraphrase_set.data, res.data, key)
                /\ \A i \in DOMAIN res.data : Len(res.data[i][key]) <= cfg.n
                /\ res.paraphrase_field = cfg.paraphrase_set.paraphrase_field
                /\ disk[cfg.tmp_output_filename] = JsonDump(res))
    /\ [][pc = "paraphrase" => cfg' = cfg]_vars

C24_Witness ==
    /\ pc = "done"
    /\ cfg.n = 1
    /\ Len(cfg.paraphrase_set.data) = 2
    /\ cfg.paraphrase_set.data[1] # cfg.paraphrase_set.data[2]
    /\ "text0_paraphrases" \in DOMAIN cfg.paraphrase_set.data[2]
    /\ cfg.paraphrase_set.paraphrase_field = "text0"
    /\ result.returned.data[1].text0_paraphrases = <<"p1">>
    /\ result.returned.data[2].text0_paraphrases = <<>>
    /\ Count(trace, "json.dump") = 2
    /\ disk[cfg.tmp_output_filename] = JsonDump(result.returned)

\* C26: a live fine-tune optimizer holds the parameters of the model the
\* facade currently predicts with: after any sequence of robust_tune_init,
\* robust_tune_step, save and load calls, a successful robust_tune_step
\* updates the parameters of the current self._model.
C26_OptimizerBoundToCurrentModel ==
    /\ [](fine_tune_opt # None => fine_tune_opt.params_of = model.id)
    /\ [][(Called(result', "robust_tune_step") /\ result'.status = "ok") =>
            model'.params = model.params + 1]_vars

\* C27: a robust_tune_step call that fails, with the not-initialized error
\* or with the consistency error, leaves the model's mode as it was on
\* entry, so the model is in eval mode whenever a facade call has returned
\* or raised.
C27_FailedStepKeepsMode ==
    /\ [][(Called(result', "robust_tune_step") /\ result'.status # "ok") =>
            model'.mode = model.mode]_vars
    /\ [](pc = "ready" => model.mode = "eval")

\* C28: the fine-tune optimizer and scheduler are both absent or both
\* present; a robust_tune_init that fails on an unsupported optimizer name
\* leaves both absent; on a facade with both absent a robust_tune_init with
\* a supported name succeeds and makes both present; and once present they
\* are never absent again.
C28_FineTunePairConsistent ==
    /\ []((fine_tune_opt = None) <=> (fine_tune_sche = None))
    /\ [][(Called(result', "robust_tune_init")
            /\ result'.status = "AssertionError") =>
               /\ ~Supported(result'.name)
               /\ fine_tune_opt' = None
               /\ fine_tune_sche' = None]_vars
    /\ [][(Called(result', "robust_tune_init") /\ fine_tune_opt = None
            /\ fine_tune_sche = None /\ Supported(result'.name)) =>
               /\ result'.status = "ok"
               /\ fine_tune_opt' # None
               /\ fine_tune_sche' # None]_vars
    /\ [][(fine_tune_opt # None /\ fine_tune_sche # None) =>
               (fine_tune_opt' # None /\ fine_tune_sche' # None)]_vars

C28_Witness ==
    /\ Called(result, "robust_tune_init")
    /\ result.status = "AssertionError"
    /\ fine_tune_opt = None
    /\ fine_tune_sche = None
    /\ ~initialized
    /\ model.id >= 1

====
